---- MODULE Spec2Model ----
(***************************************************************************)
(* Model of src/app.js: the store built by createStore (dispatch,          *)
(* dispatchEffect, subscribe, getState), the movie reducers and the search *)
(* effect registered in it, and the view (renderMoviesList, renderApp).    *)
(*                                                                         *)
(* JavaScript values are tagged records; a JavaScript string is the        *)
(* sequence of its pieces, so that the empty string is << >> and a         *)
(* template literal is a concatenation.  A JavaScript object is a function *)
(* from its own property names to values.                                  *)
(***************************************************************************)
EXTENDS Naturals, Sequences, FiniteSets

VARIABLES
  state,        \* createStore: let state                      (app.js:5)
  subscribers,  \* createStore: let subscribers                (app.js:6)
  stack,        \* the dispatch calls in progress, innermost last
  root,         \* the event handler or promise callback that is running
  pending,      \* the ids of the fetch requests in flight
  reading,      \* the ids of the requests whose response has arrived and
                \* whose body response.json() is reading
  issued,       \* how many fetch requests were issued so far
  view,         \* what renderMoviesList last wrote into #results
  nested,       \* how many dispatch calls subscribers made in this handler
  outcomes,     \* observation: the action types the promise callbacks of
                \* the request being settled have dispatched so far
  holder,       \* observation: the request whose outcome action was the
                \* last one reduced into the state (0: none)
  last          \* observation: what the most recent step did

vars == <<state, subscribers, stack, root, pending, reading, issued, view,
          nested, outcomes, holder, last>>

----------------------------------------------------------------------------
(* Bounds of the model.                                                    *)

MaxResults == 2       \* longest results array a response carries
MaxSubscribers == 3   \* longest subscriber list
MaxNested == 1        \* dispatch calls subscribers make in one handler
MaxRequests == 2      \* fetch requests issued in one behaviour

----------------------------------------------------------------------------
(* JavaScript values: undefined, null, strings, numbers (the naturals),     *)
(* booleans, arrays, errors, functions, the objects Object(v) wraps a        *)
(* primitive v in, and plain objects.  All but the plain objects are        *)
(* records with a tag t; a plain object is the function from its own        *)
(* property names to their values.                                          *)

Undefined == [t |-> "undefined"]
Null == [t |-> "null"]
Str(s) == [t |-> "string", s |-> s]
Num(n) == [t |-> "number", n |-> n]
Bool(b) == [t |-> "boolean", b |-> b]
Arr(a) == [t |-> "array", a |-> a]
Err(name, message) == [t |-> "error", name |-> name, message |-> message]
Fn(name) == [t |-> "function", name |-> name]
Wrapped(v) == [t |-> "wrapper", v |-> v]

\* An object with no own property: the default initialState of createStore.
EmptyObject == [k \in {} |-> Undefined]

IsObject(v) == "t" \notin DOMAIN v
TypeOf(v) == IF IsObject(v) THEN "object" ELSE v.t

\* The values a property read throws a TypeError on.
Nullish(v) == TypeOf(v) \in {"undefined", "null"}

\* The decimal digits of a natural number.
Digits == "0123456789"

RECURSIVE Decimal(_)
Decimal(n) ==
  IF n < 10
  THEN SubSeq(Digits, n + 1, n + 1)
  ELSE Decimal(n \div 10) \o SubSeq(Digits, (n % 10) + 1, (n % 10) + 1)

\* The characters of a string, one piece each.
RECURSIVE Chars(_)
Chars(s) ==
  IF s = << >> THEN << >>
  ELSE [i \in 1..Len(Head(s)) |-> SubSeq(Head(s), i, i)] \o Chars(Tail(s))

\* The pieces of a string put together.
RECURSIVE Concat(_)
Concat(s) == IF s = << >> THEN "" ELSE Head(s) \o Concat(Tail(s))

\* ToBoolean, as && and || and if apply it.
Truthy(v) ==
  CASE TypeOf(v) = "undefined" -> FALSE
    [] TypeOf(v) = "null" -> FALSE
    [] TypeOf(v) = "string" -> Chars(v.s) # << >>
    [] TypeOf(v) = "number" -> v.n # 0
    [] TypeOf(v) = "boolean" -> v.b
    [] OTHER -> TRUE

\* How a call ends: it returns a value, or it throws an error.
Returned(value) == [threw |-> FALSE, value |-> value]
Threw(error) == [threw |-> TRUE, error |-> error]

\* ToPrimitive of a plain object o: with hint "string" its toString is
\* tried and then its valueOf, with hint "number" the other way round; a
\* method that is not callable is passed over, the inherited valueOf
\* returns the object, which is no primitive, the inherited toString
\* returns "[object Object]", and when neither method gave a primitive a
\* TypeError is thrown.  Objects with a callable method of their own are
\* left open.
ObjectToPrimitive(o, hint) ==
  CASE "toString" \notin DOMAIN o
         /\ (hint = "string" \/ "valueOf" \notin DOMAIN o
               \/ TypeOf(o.valueOf) # "function") ->
         Returned(Str(<<"[object Object]">>))
    [] "toString" \in DOMAIN o /\ TypeOf(o.toString) # "function"
         /\ ("valueOf" \notin DOMAIN o \/ TypeOf(o.valueOf) # "function") ->
         Threw(Err("TypeError", <<"Cannot convert object to primitive value">>))

\* ToString(v) throws: v is an object ToPrimitive throws on, or an array
\* that holds one.
RECURSIVE ToStringThrows(_)
ToStringThrows(v) ==
  CASE TypeOf(v) = "object" -> ObjectToPrimitive(v, "string").threw
    [] TypeOf(v) = "array" ->
         \E i \in 1..Len(v.a) : ~Nullish(v.a[i]) /\ ToStringThrows(v.a[i])
    [] OTHER -> FALSE

\* ToString, as a template literal `${v}` applies it; an array is its
\* elements joined by commas, undefined and null elements being empty; an
\* error is its message when its name is empty, its name when its message
\* is, and otherwise the two with ": " in between; a plain object is what
\* ToPrimitive makes of it.  The values ToStringThrows tells have no
\* string.  A function, whose string is its source text, has no arm: no
\* template literal of the program is given one.
RECURSIVE ToString(_)
RECURSIVE ArrayJoin(_, _)
ToString(v) ==
  CASE TypeOf(v) = "undefined" -> <<"undefined">>
    [] TypeOf(v) = "null" -> <<"null">>
    [] TypeOf(v) = "string" -> v.s
    [] TypeOf(v) = "number" -> <<Decimal(v.n)>>
    [] TypeOf(v) = "boolean" -> IF v.b THEN <<"true">> ELSE <<"false">>
    [] TypeOf(v) = "error" ->
         IF v.name = "" THEN v.message
         ELSE IF Chars(v.message) = << >> THEN <<v.name>>
         ELSE <<v.name, ": ">> \o v.message
    [] TypeOf(v) = "array" -> ArrayJoin(v.a, 1)
    [] TypeOf(v) = "wrapper" -> ToString(v.v)
    [] TypeOf(v) = "object" -> ObjectToPrimitive(v, "string").value.s

ArrayJoin(a, i) ==
  IF i > Len(a) THEN << >>
  ELSE (IF i > 1 THEN <<",">> ELSE << >>)
         \o (IF Nullish(a[i]) THEN << >> ELSE ToString(a[i]))
         \o ArrayJoin(a, i + 1)

\* Object(v): a new empty object for undefined and null, the wrapper object
\* of a primitive, the value itself for an object.
ToObject(v) ==
  CASE Nullish(v) -> EmptyObject
    [] TypeOf(v) \in {"string", "number", "boolean"} -> Wrapped(v)
    [] OTHER -> v

\* Object.assign sets each own enumerable property of a source on the new
\* object.  Setting "__proto__" calls the inherited setter, which makes no
\* property: given an object or null it replaces the prototype of the new
\* object, given anything else it does nothing.
SetsPrototype(v) ==
  /\ TypeOf(v) = "object"
  /\ "__proto__" \in DOMAIN v
  /\ TypeOf(v["__proto__"]) \notin {"undefined", "string", "number", "boolean"}

\* The properties Object.assign({}, v) gives the new object: the own
\* enumerable properties of a plain object but "__proto__", the characters
\* of a string, the elements of an array; from other values none.  A
\* source that replaces the prototype of the new object is left open.
OwnProperties(v) ==
  LET indexed(q) == [k \in {Decimal(i - 1) : i \in 1..Len(q)} |->
                       q[CHOOSE i \in 1..Len(q) : Decimal(i - 1) = k]]
  IN  CASE TypeOf(v) = "object" /\ ~SetsPrototype(v) ->
             [k \in DOMAIN v \ {"__proto__"} |-> v[k]]
        [] TypeOf(v) = "string" ->
             indexed([i \in 1..Len(Chars(v.s)) |-> Str(<<Chars(v.s)[i]>>)])
        [] TypeOf(v) = "wrapper" /\ TypeOf(v.v) = "string" ->
             indexed([i \in 1..Len(Chars(v.v.s)) |-> Str(<<Chars(v.v.s)[i]>>)])
        [] TypeOf(v) = "array" -> indexed(v.a)
        [] TypeOf(v) \notin {"object", "string", "array"}
             /\ (TypeOf(v) = "wrapper" => TypeOf(v.v) # "string") ->
             EmptyObject

\* The number of parameters of a function, which is its length: of the
\* functions of app.js, of Array.prototype.map, of Object and of the
\* members of Object.prototype.
FunctionLength(name) ==
  CASE name = "fetchMoviesRequest" -> 1
    [] name = "fetchMoviesRequestEffect" -> 3
    [] name \in {"fetchMoviesSuccess", "fetchMoviesFailure",
                 "showMovieDescription"} -> 2
    [] name \in {"map", "Object", "hasOwnProperty", "isPrototypeOf",
                 "propertyIsEnumerable", "__lookupGetter__",
                 "__lookupSetter__", "set __proto__"} -> 1
    [] name \in {"__defineGetter__", "__defineSetter__"} -> 2
    [] name \in {"toString", "toLocaleString", "valueOf",
                 "get __proto__"} -> 0

\* obj[k] for the property names the program reads (items, length, map,
\* isFetchingItems, error, the fields of a movie and of an action) and for
\* the indices: the value of the property, undefined when there is none.
\* On undefined and null the read throws; the definitions that read test
\* Nullish first.
RECURSIVE Get(_, _)
Get(obj, k) ==
  CASE TypeOf(obj) = "object" -> IF k \in DOMAIN obj THEN obj[k] ELSE Undefined
    [] TypeOf(obj) = "array" /\ k = "length" -> Num(Len(obj.a))
    [] TypeOf(obj) = "array" /\ k = "map" -> Fn("map")
    [] TypeOf(obj) = "string" /\ k = "length" -> Num(Len(Chars(obj.s)))
    [] TypeOf(obj) = "function" /\ k = "length" ->
         Num(FunctionLength(obj.name))
    [] TypeOf(obj) = "wrapper" /\ TypeOf(obj.v) = "string" -> Get(obj.v, k)
    [] TypeOf(obj) = "error" /\ k = "message" -> Str(obj.message)
    [] TypeOf(obj) = "array"
         /\ (\E i \in 1..Len(obj.a) : Decimal(i - 1) = k) ->
         obj.a[CHOOSE i \in 1..Len(obj.a) : Decimal(i - 1) = k]
    [] TypeOf(obj) = "string"
         /\ (\E i \in 1..Len(Chars(obj.s)) : Decimal(i - 1) = k) ->
         Str(<<Chars(obj.s)[CHOOSE i \in 1..Len(Chars(obj.s)) :
                              Decimal(i - 1) = k]>>)
    [] OTHER -> Undefined

\* The white space StringToNumber strips: space, tab, line feed, carriage
\* return, form feed, vertical tab (U+000B), no-break space (U+00A0), the
\* byte order mark (U+FEFF) and the Ogham space mark (U+1680).  The other
\* space separators (U+2000 to U+200A, U+202F, U+205F, U+3000) and the line
\* and paragraph separators (U+2028, U+2029) cannot be written in a
\* string of this module, so no string of the model holds them.
Whitespace == {" ", "\t", "\n", "\r", "\f", "", " ", "﻿", " "}

RECURSIVE Trim(_)
Trim(c) ==
  IF c # << >> /\ Head(c) \in Whitespace THEN Trim(Tail(c))
  ELSE IF c # << >> /\ c[Len(c)] \in Whitespace
  THEN Trim(SubSeq(c, 1, Len(c) - 1))
  ELSE c

\* The first position of c that holds a character of set, 0 when none does.
IndexOf(c, set) ==
  IF \E i \in 1..Len(c) : c[i] \in set
  THEN CHOOSE i \in 1..Len(c) :
         c[i] \in set /\ \A j \in 1..(i - 1) : c[j] \notin set
  ELSE 0

DigitsOf(alphabet) == {SubSeq(alphabet, i, i) : i \in 1..Len(alphabet)}

\* The number a run of decimal digits stands for.
RECURSIVE Natural(_)
Natural(c) ==
  IF c = << >> THEN 0
  ELSE 10 * Natural(SubSeq(c, 1, Len(c) - 1))
         + (CHOOSE d \in 0..9 : SubSeq(Digits, d + 1, d + 1) = c[Len(c)])

\* A decimal literal that is valid and has a digit that is not 0 is above
\* zero unless it rounds to 0.  Its value is at least 10^(above - below -
\* 324) and less than ten times as much: a value of 1e-323 and more does
\* not round to 0, one below 1e-324 does, and in between the first digit
\* that is not 0 decides (left open when it is 2, where the half of the
\* smallest number lies).
PositiveRounded(above, below, first) ==
  CASE above > below -> TRUE
    [] above < below -> FALSE
    [] above = below /\ first = "1" -> FALSE
    [] above = below /\ first \in DigitsOf("3456789") -> TRUE

\* digits: the digits of the literal, of which whole stand before the
\* point; lead: the position of the first that is not 0; power: the digits
\* of the exponent, which is negative or not.
PositiveDigits(digits, whole, lead, marked, negative, power) ==
  /\ digits # << >>
  /\ \A i \in 1..Len(digits) : digits[i] \in DigitsOf(Digits)
  /\ marked => /\ power # << >>
               /\ \A i \in 1..Len(power) : power[i] \in DigitsOf(Digits)
  /\ lead # 0
  /\ PositiveRounded(whole + 324 + (IF negative THEN 0 ELSE Natural(power)),
                     lead + (IF negative THEN Natural(power) ELSE 0),
                     digits[lead])

\* mantissa: the literal up to its exponent mark; point: the position of
\* its point (0: none); exponent: what follows the mark, if there is one.
PositiveMantissa(mantissa, point, marked, exponent) ==
  LET whole == IF point = 0 THEN Len(mantissa) ELSE point - 1
      digits == SubSeq(mantissa, 1, whole)
                  \o SubSeq(mantissa, whole + 2, Len(mantissa))
      signed == exponent # << >> /\ Head(exponent) \in {"+", "-"}
  IN  PositiveDigits(digits, whole, IndexOf(digits, DigitsOf("123456789")),
                     marked, exponent # << >> /\ Head(exponent) = "-",
                     IF signed THEN Tail(exponent) ELSE exponent)

\* u: a literal without sign; mark: the position of its exponent mark (0:
\* none).
PositiveUnsigned(u, mark) ==
  IF u = Chars(<<"Infinity">>) THEN TRUE
  ELSE IF mark = 0
  THEN PositiveMantissa(u, IndexOf(u, {"."}), FALSE, << >>)
  ELSE PositiveMantissa(SubSeq(u, 1, mark - 1),
                        IndexOf(SubSeq(u, 1, mark - 1), {"."}),
                        TRUE, SubSeq(u, mark + 1, Len(u)))

\* The digits of the base a literal that starts with 0x, 0o or 0b is
\* written in; no digits for any other.
Radix(c) ==
  IF Len(c) >= 2 /\ c[1] = "0"
  THEN CASE c[2] \in {"x", "X"} -> DigitsOf("0123456789abcdefABCDEF")
         [] c[2] \in {"o", "O"} -> DigitsOf("01234567")
         [] c[2] \in {"b", "B"} -> DigitsOf("01")
         [] OTHER -> {}
  ELSE {}

\* c: a literal without white space around; radix: as above.
PositiveTrimmed(c, radix) ==
  IF c = << >> \/ Head(c) = "-" THEN FALSE
  ELSE IF radix # {}
  THEN /\ Len(c) > 2
       /\ \A i \in 3..Len(c) : c[i] \in radix
       /\ \E i \in 3..Len(c) : c[i] # "0"
  ELSE IF Head(c) = "+"
  THEN PositiveUnsigned(Tail(c), IndexOf(Tail(c), {"e", "E"}))
  ELSE PositiveUnsigned(c, IndexOf(c, {"e", "E"}))

\* StringToNumber(t) > 0 for the characters t of a string.  White space
\* around is stripped; a string with a minus sign is negative, zero or NaN;
\* a hexadecimal, octal or binary literal takes no sign; a decimal literal
\* has digits, an optional point and an optional exponent; Infinity is
\* above zero.  Anything else is NaN.
PositiveNumeral(t) == PositiveTrimmed(Trim(t), Radix(Trim(t)))

\* v > 0 throws: ToPrimitive with hint "number" throws on v.  An array and
\* an error inherit a valueOf that returns the object, so that their
\* toString decides.
GreaterThanZeroThrows(v) ==
  CASE TypeOf(v) = "object" -> ObjectToPrimitive(v, "number").threw
    [] TypeOf(v) = "array" -> ToStringThrows(v)
    [] OTHER -> FALSE

\* v > 0 for a truthy v on which it does not throw: a number is compared
\* as it is, true counts as 1, the wrapper of a primitive as the primitive,
\* and any other value as the number that the primitive ToPrimitive makes
\* of it with hint "number" stands for (the string of a function is its
\* source text, which is no number).
RECURSIVE GreaterThanZero(_)
GreaterThanZero(v) ==
  CASE TypeOf(v) = "number" -> v.n > 0
    [] TypeOf(v) = "boolean" -> v.b
    [] TypeOf(v) \in {"undefined", "null", "function"} -> FALSE
    [] TypeOf(v) = "wrapper" -> GreaterThanZero(v.v)
    [] TypeOf(v) = "object" ->
         PositiveNumeral(Chars(ObjectToPrimitive(v, "number").value.s))
    [] OTHER -> PositiveNumeral(Chars(ToString(v)))

\* Object.assign({}, target, source), for a source written in app.js: the
\* properties target gives the new object and those of source, source
\* winning.  Where target replaces the prototype of the new object there
\* is no value (see OwnProperties).
ObjectAssign(target, source) ==
  LET own == OwnProperties(target)
  IN  [k \in DOMAIN own \cup DOMAIN source |->
         IF k \in DOMAIN source THEN source[k] ELSE own[k]]

----------------------------------------------------------------------------
(* Helpers (app.js:43-49).                                                 *)

\* The record buildMovieObject returns, or the error it throws: reading
\* title of undefined or null (line 44), or the template literal of line
\* 45 on a poster_path that has no string.
buildMovieObject(movie) ==
  IF Nullish(movie)
  THEN Threw(Err("TypeError", <<"Cannot read properties of undefined">>))
  ELSE IF ToStringThrows(Get(movie, "poster_path"))
  THEN Threw(Err("TypeError", <<"Cannot convert object to primitive value">>))
  ELSE Returned(
         [title |-> Get(movie, "title"),
          thumbnail |-> Str(<<"https://image.tmdb.org/t/p/w92/">>
                              \o ToString(Get(movie, "poster_path"))),
          rating |-> Get(movie, "vote_average"),
          description |-> Get(movie, "overview"),
          showDescription |-> Bool(FALSE)])

----------------------------------------------------------------------------
(* The action types (app.js:54-57).                                        *)

FETCH_MOVIES_REQUEST == "FETCH_MOVIES_REQUEST"
FETCH_MOVIES_SUCCESS == "FETCH_MOVIES_SUCCESS"
FETCH_MOVIES_FAILURE == "FETCH_MOVIES_FAILURE"
SHOW_MOVIE_DESCRIPTION == "SHOW_MOVIES_DESCRIPTION"

----------------------------------------------------------------------------
(* The reducers (app.js:59-107).                                           *)

\* Faulty variant of fetchMoviesRequest: a new search drops the items of
\* the previous one.
fetchMoviesRequestDropsItems(s) ==
  ObjectAssign(s, [isFetchingItems |-> Bool(TRUE), error |-> Undefined,
                   items |-> Undefined])

fetchMoviesRequest(s) ==
  ObjectAssign(s, [isFetchingItems |-> Bool(TRUE), error |-> Undefined])

fetchMoviesSuccess(s, action) ==
  ObjectAssign(s, [items |-> Get(action, "data"),
                   isFetchingItems |-> Bool(FALSE)])

fetchMoviesFailure(s, action) ==
  ObjectAssign(s, [items |-> Undefined,
                   isFetchingItems |-> Bool(FALSE),
                   error |-> Get(action, "error")])

\* state.items && state.items.length && state.items.length > 0 throws, for
\* a state that is not undefined or null: the comparison is reached and
\* throws.
HasItemsThrows(s) ==
  LET items == Get(s, "items")
      length == Get(items, "length")
  IN  Truthy(items) /\ Truthy(length) /\ GreaterThanZeroThrows(length)

\* state.items && state.items.length && state.items.length > 0, for a state
\* that is not undefined or null and on which the test does not throw.
HasItems(s) ==
  LET items == Get(s, "items")
      length == Get(items, "length")
  IN  Truthy(items) /\ Truthy(length) /\ GreaterThanZero(length)

\* Faulty variant of showMovieDescriptionItem: the items that are not
\* selected are left as they were.
showMovieDescriptionItemKeepsOthers(item, index, action) ==
  IF Num(index) = Get(action, "index")
  THEN ObjectAssign(item, [showDescription |-> Bool(TRUE)])
  ELSE item

\* The callback of state.items.map: index is the 0-based array index.
showMovieDescriptionItem(item, index, action) ==
  IF Num(index) = Get(action, "index")
  THEN ObjectAssign(item, [showDescription |-> Bool(TRUE)])
  ELSE ObjectAssign(item, [showDescription |-> Bool(FALSE)])

\* Faulty variant of showMovieDescription: the callback is given the
\* position counted from one.
showMovieDescriptionOneBased(s, action) ==
  IF Nullish(s)
  THEN Threw(Err("TypeError", <<"Cannot read properties of undefined">>))
  ELSE IF HasItemsThrows(s)
  THEN Threw(Err("TypeError", <<"Cannot convert object to primitive value">>))
  ELSE IF ~HasItems(s)
  THEN Returned(ObjectAssign(s, [items |-> Undefined]))
  ELSE CASE TypeOf(s.items) = "array" ->
              Returned(ObjectAssign(s,
                [items |-> Arr([i \in 1..Len(s.items.a) |->
                   showMovieDescriptionItem(s.items.a[i], i, action)])]))
         [] TypeOf(s.items) # "array"
              /\ TypeOf(Get(s.items, "map")) # "function" ->
              Threw(Err("TypeError", <<"state.items.map is not a function">>))

\* showMovieDescription returns the new state, or throws: reading
\* state.items of undefined or null (line 96), comparing with 0 a length
\* that has no primitive (line 96), or calling map on items that
\* pass the test of line 96 and have no function map (line 97).  Items
\* that are no array and have a function map of their own are left open.
showMovieDescription(s, action) ==
  IF Nullish(s)
  THEN Threw(Err("TypeError", <<"Cannot read properties of undefined">>))
  ELSE IF HasItemsThrows(s)
  THEN Threw(Err("TypeError", <<"Cannot convert object to primitive value">>))
  ELSE IF ~HasItems(s)
  THEN Returned(ObjectAssign(s, [items |-> Undefined]))
  ELSE CASE TypeOf(s.items) = "array" ->
              Returned(ObjectAssign(s,
                [items |-> Arr([i \in 1..Len(s.items.a) |->
                   showMovieDescriptionItem(s.items.a[i], i - 1, action)])]))
         [] TypeOf(s.items) # "array"
              /\ TypeOf(Get(s.items, "map")) # "function" ->
              Threw(Err("TypeError", <<"state.items.map is not a function">>))

----------------------------------------------------------------------------
(* The registries (app.js:109-118).  Both are object literals, so a        *)
(* property read reducers[type] that finds no own property goes on to      *)
(* Object.prototype and finds its members: eleven functions and the        *)
(* accessor __proto__, whose value is the prototype object itself, which   *)
(* is truthy and not callable.                                             *)

reducers ==
  [type \in {FETCH_MOVIES_REQUEST, FETCH_MOVIES_SUCCESS,
             FETCH_MOVIES_FAILURE, SHOW_MOVIE_DESCRIPTION} |->
     CASE type = FETCH_MOVIES_REQUEST -> "fetchMoviesRequest"
       [] type = FETCH_MOVIES_SUCCESS -> "fetchMoviesSuccess"
       [] type = FETCH_MOVIES_FAILURE -> "fetchMoviesFailure"
       [] type = SHOW_MOVIE_DESCRIPTION -> "showMovieDescription"]

effects ==
  [type \in {FETCH_MOVIES_REQUEST} |-> "fetchMoviesRequestEffect"]

ObjectPrototype ==
  [name \in {"constructor", "__proto__", "__defineGetter__",
             "__defineSetter__", "__lookupGetter__", "__lookupSetter__",
             "hasOwnProperty", "isPrototypeOf", "propertyIsEnumerable",
             "toString", "toLocaleString", "valueOf"} |->
     CASE name = "constructor" -> "Object"
       [] name = "__proto__" -> "Object.prototype"
       [] OTHER -> name]

\* registry[type], as the property read evaluates it.
PropertyRead(registry, type) ==
  IF type \in DOMAIN registry THEN registry[type]
  ELSE IF type \in DOMAIN ObjectPrototype THEN ObjectPrototype[type]
  ELSE "undefined"

\* The registry as a value: its own properties are the registered functions.
RegistryObject(registry) == [type \in DOMAIN registry |-> Fn(registry[type])]

\* registry[type](state, action, {dispatch, dispatchEffect}) for an inherited
\* member: the call has the registry as this, the state as first argument
\* and the action, which is not callable, as second.
CallInherited(registry, handler, s, action) ==
  LET key == Concat(ToString(s))
  IN  CASE handler = "Object" -> Returned(ToObject(s))
        [] handler \in {"toString", "toLocaleString"} ->
             Returned(Str(<<"[object Object]">>))
        [] handler = "valueOf" -> Returned(RegistryObject(registry))
        [] handler \in {"hasOwnProperty", "propertyIsEnumerable",
                        "__lookupGetter__", "__lookupSetter__"}
             /\ ToStringThrows(s) ->
             Threw(Err("TypeError",
                       <<"Cannot convert object to primitive value">>))
        [] handler \in {"hasOwnProperty", "propertyIsEnumerable"} ->
             Returned(Bool(key \in DOMAIN registry))
        [] handler = "isPrototypeOf" -> Returned(Bool(FALSE))
        [] handler \in {"__lookupGetter__", "__lookupSetter__"} ->
             Returned(IF key # "__proto__" THEN Undefined
                      ELSE IF handler = "__lookupGetter__"
                      THEN Fn("get __proto__")
                      ELSE Fn("set __proto__"))
        [] handler \in {"__defineGetter__", "__defineSetter__"} ->
             Threw(Err("TypeError", <<"Expecting function">>))
        [] OTHER -> Threw(Err("TypeError", <<"is not a function">>))

\* reducers[type](state, action, {dispatch, dispatchEffect}): the value the
\* call returns, or the error it throws.
CallReducer(handler, s, action) ==
  CASE handler = "fetchMoviesRequest" -> Returned(fetchMoviesRequest(s))
    [] handler = "fetchMoviesSuccess" -> Returned(fetchMoviesSuccess(s, action))
    [] handler = "fetchMoviesFailure" -> Returned(fetchMoviesFailure(s, action))
    [] handler = "showMovieDescription" -> showMovieDescription(s, action)
    [] OTHER -> CallInherited(reducers, handler, s, action)

----------------------------------------------------------------------------
(* createStore (app.js:4-38).                                              *)

getState == state

\* Faulty variant of dispatch: a reducer call that throws leaves the store
\* with the initial state.
dispatchResetsOnThrow(s, action) ==
  LET handler == PropertyRead(reducers, action.type)
      call == CallReducer(handler, s, action)
  IN  IF handler = "undefined"
      THEN [outcome |-> "miss", handler |-> handler, state |-> s]
      ELSE IF call.threw
      THEN [outcome |-> "threw", handler |-> handler, state |-> EmptyObject,
            error |-> call.error]
      ELSE [outcome |-> "reduced", handler |-> handler, state |-> call.value]

\* dispatch, lines 15-19: the routing and the state replacement.
\*   miss    : no reducer was found, the call returns at line 17;
\*   threw   : the call at line 19 threw, so nothing was assigned;
\*   reduced : state was replaced by what the reducer returned.
dispatch(s, action) ==
  LET handler == PropertyRead(reducers, action.type)
      call == CallReducer(handler, s, action)
  IN  IF handler = "undefined"
      THEN [outcome |-> "miss", handler |-> handler, state |-> s]
      ELSE IF call.threw
      THEN [outcome |-> "threw", handler |-> handler, state |-> s,
            error |-> call.error]
      ELSE [outcome |-> "reduced", handler |-> handler, state |-> call.value]

\* Faulty variant of fetchMoviesRequestEffect: the fetch is issued whatever
\* the query.
fetchMoviesRequestEffectAnyQuery(s, action) == Returned(TRUE)

\* fetchMoviesRequestEffect, lines 62-63: action.query && fetch(...).  It
\* returns, having called fetch or not, or the template literal of line
\* 63 throws on a truthy query that has no string, before fetch is called.
fetchMoviesRequestEffect(s, action) ==
  IF ~Truthy(Get(action, "query"))
  THEN Returned(FALSE)
  ELSE IF ToStringThrows(Get(action, "query"))
  THEN Threw(Err("TypeError", <<"Cannot convert object to primitive value">>))
  ELSE Returned(TRUE)

\* Line 29: the call of the handler throws (its error goes to the caller
\* of dispatchEffect), or it returns; fetches says that the handler is the
\* one that calls fetch, whose value says whether it did.
EffectCall(handler, call, fetches) ==
  IF call.threw
  THEN [outcome |-> "threw", handler |-> handler, fetch |-> FALSE,
        error |-> call.error]
  ELSE [outcome |-> "called", handler |-> handler,
        fetch |-> fetches /\ call.value]

\* dispatchEffect, lines 24-30: whether the call is a miss, throws, or
\* returns, and whether it issued a fetch.
dispatchEffect(s, action) ==
  LET handler == PropertyRead(effects, action.type)
  IN  CASE handler = "undefined" ->
             [outcome |-> "miss", handler |-> handler, fetch |-> FALSE]
        [] handler = "fetchMoviesRequestEffect" ->
             EffectCall(handler, fetchMoviesRequestEffect(s, action), TRUE)
        [] OTHER ->
             EffectCall(handler, CallInherited(effects, handler, s, action),
                        FALSE)

----------------------------------------------------------------------------
(* The promise chain of fetchMoviesRequestEffect (app.js:64-81).           *)

\* Faulty variant of fetchMoviesRequestEffectThen: the items are built
\* from the last result to the first.
fetchMoviesRequestEffectThenReversed(settled) ==
  IF settled.k = "failed"
  THEN [k |-> "reject", error |-> settled.error]
  ELSE IF ~settled.ok
  THEN [k |-> "reject", error |-> settled.statusText]
  ELSE IF ~settled.json.ok
  THEN [k |-> "reject", error |-> Err("SyntaxError", <<"Unexpected token">>)]
  ELSE LET results == Get(settled.json.value, "results")
       IN  IF Nullish(settled.json.value) \/ Nullish(results)
           THEN [k |-> "reject",
                 error |-> Err("TypeError",
                               <<"Cannot read properties of undefined">>)]
           ELSE IF TypeOf(results) # "array"
           THEN [k |-> "reject",
                 error |-> Err("TypeError",
                               <<"response.results.map is not a function">>)]
           ELSE IF \E i \in 1..Len(results.a) :
                     buildMovieObject(results.a[i]).threw
           THEN [k |-> "reject",
                 error |->
                   buildMovieObject(
                     results.a[CHOOSE i \in 1..Len(results.a) :
                       /\ buildMovieObject(results.a[i]).threw
                       /\ \A j \in 1..(i - 1) :
                            ~buildMovieObject(results.a[j]).threw]).error]
           ELSE [k |-> "dispatch",
                 action |->
                   [type |-> FETCH_MOVIES_SUCCESS,
                    data |-> Arr([i \in 1..Len(results.a) |->
                                    buildMovieObject(results.a[Len(results.a) + 1 - i]).value])]]

\* Lines 64-76: what the chain does once the fetch and the body have
\* settled: it calls dispatch with a FETCH_MOVIES_SUCCESS action, or it
\* rejects (also when reading results, calling map or building an item
\* throws).
fetchMoviesRequestEffectThen(settled) ==
  IF settled.k = "failed"
  THEN [k |-> "reject", error |-> settled.error]
  ELSE IF ~settled.ok
  THEN [k |-> "reject", error |-> settled.statusText]
  ELSE IF ~settled.json.ok
  THEN [k |-> "reject", error |-> Err("SyntaxError", <<"Unexpected token">>)]
  ELSE LET results == Get(settled.json.value, "results")
       IN  IF Nullish(settled.json.value) \/ Nullish(results)
           THEN [k |-> "reject",
                 error |-> Err("TypeError",
                               <<"Cannot read properties of undefined">>)]
           ELSE IF TypeOf(results) # "array"
           THEN [k |-> "reject",
                 error |-> Err("TypeError",
                               <<"response.results.map is not a function">>)]
           ELSE IF \E i \in 1..Len(results.a) :
                     buildMovieObject(results.a[i]).threw
           THEN [k |-> "reject",
                 error |->
                   buildMovieObject(
                     results.a[CHOOSE i \in 1..Len(results.a) :
                       /\ buildMovieObject(results.a[i]).threw
                       /\ \A j \in 1..(i - 1) :
                            ~buildMovieObject(results.a[j]).threw]).error]
           ELSE [k |-> "dispatch",
                 action |->
                   [type |-> FETCH_MOVIES_SUCCESS,
                    data |-> Arr([i \in 1..Len(results.a) |->
                                    buildMovieObject(results.a[i]).value])]]

\* Lines 77-81: the action the catch callback dispatches, or the error
\* its template literal throws on a rejection value that has no string.
fetchMoviesRequestEffectCatch(error) ==
  IF ToStringThrows(error)
  THEN Threw(Err("TypeError", <<"Cannot convert object to primitive value">>))
  ELSE Returned(
         [type |-> FETCH_MOVIES_FAILURE,
          error |-> IF Truthy(Str(ToString(error)))
                    THEN Str(ToString(error))
                    ELSE Str(<<"Unknown error">>)])

----------------------------------------------------------------------------
(* The view (app.js:123-186).                                              *)

\* The start tag of an element of class results__read-more, as a value
\* written into the page can hold it, and the end tag of a button.
ReadMoreTag == Chars(<<"<button class=\"results__read-more\">">>)
ButtonEndTag == Chars(<<"</button>">>)

StartsWith(c, prefix) ==
  Len(c) >= Len(prefix) /\ SubSeq(c, 1, Len(prefix)) = prefix

\* The characters that make a tag, a comment or a declaration of a "<".
TagOpeners ==
  DigitsOf("abcdefghijklmnopqrstuvwxyzABCDEFGHIJKLMNOPQRSTUVWXYZ/!?")

\* The .results__read-more elements the characters c add to the page when
\* innerHTML parses them as the text of an element (lines 148, 149, 156,
\* 166): one for every start tag; a "<" that opens no tag is text, and the
\* end tag of a button adds nothing.  Other markup is left open.
RECURSIVE TextButtons(_)
TextButtons(c) ==
  CASE c = << >> -> 0
    [] c # << >> /\ Head(c) # "<" -> TextButtons(Tail(c))
    [] c # << >> /\ Head(c) = "<"
         /\ (Len(c) = 1 \/ c[2] \notin TagOpeners) -> TextButtons(Tail(c))
    [] StartsWith(c, ReadMoreTag) ->
         1 + TextButtons(SubSeq(c, Len(ReadMoreTag) + 1, Len(c)))
    [] StartsWith(c, ButtonEndTag) ->
         TextButtons(SubSeq(c, Len(ButtonEndTag) + 1, Len(c)))

\* The same for characters written between the double quotes of an
\* attribute of the img tag (lines 142, 143).  Without a double quote they
\* stay in the attribute.  When their first double quote is the one of a
\* start tag as above, it ends the attribute, the ">" of the start tag ends
\* the img tag, and what follows is text (broke).  Other values with a
\* double quote are left open.
AttributeMarkup(c, quote, open) ==
  CASE quote = 0 -> [broke |-> FALSE, buttons |-> 0]
    [] quote >= open
         /\ StartsWith(SubSeq(c, quote - open + 1, Len(c)), ReadMoreTag) ->
         [broke |-> TRUE,
          buttons |-> TextButtons(SubSeq(c, quote - open + Len(ReadMoreTag) + 1,
                                         Len(c)))]

AttributeButtons(c) ==
  AttributeMarkup(c, IndexOf(c, {"\""}), IndexOf(ReadMoreTag, {"\""}))

\* The .results__read-more elements of the rows of one item (lines
\* 139-158): the button of the row and those its fields bring in.  Once the
\* thumbnail has ended the img tag, the title written for alt is text.
RowMarkup(src, alt, title, rating, description) ==
  src.buttons + (IF src.broke THEN title ELSE alt.buttons) + title + rating
    + 1 + description

RowButtons(item) ==
  RowMarkup(AttributeButtons(Chars(ToString(Get(item, "thumbnail")))),
            AttributeButtons(Chars(ToString(Get(item, "title")))),
            TextButtons(Chars(ToString(Get(item, "title")))),
            TextButtons(Chars(ToString(Get(item, "rating")))),
            IF Truthy(Get(item, "showDescription"))
            THEN TextButtons(Chars(ToString(Get(item, "description"))))
            ELSE 0)

RECURSIVE ListButtons(_)
ListButtons(items) ==
  IF items = << >> THEN 0
  ELSE RowButtons(Head(items)) + ListButtons(Tail(items))

\* The template literals of the row of one item throw (lines 142-155): the
\* item is undefined or null, or a field they write has no string.
RowThrows(item) ==
  \/ Nullish(item)
  \/ ToStringThrows(Get(item, "thumbnail"))
  \/ ToStringThrows(Get(item, "title"))
  \/ ToStringThrows(Get(item, "rating"))
  \/ Truthy(Get(item, "showDescription"))
       /\ ToStringThrows(Get(item, "description"))

RowError(item) ==
  IF Nullish(item)
  THEN Err("TypeError", <<"Cannot read properties of undefined">>)
  ELSE Err("TypeError", <<"Cannot convert object to primitive value">>)

\* What renderMoviesList writes into #results and how many elements of
\* class results__read-more the page then holds, each of which line 177
\* binds a listener to, with its position among them as index; or the
\* error it throws before it writes anything: reading isFetchingItems of
\* undefined or null (line 125), comparing with 0 a length that has no
\* primitive (line 127), calling map on items that pass the test of line
\* 127 and have no function map, reading the thumbnail of an item that is
\* undefined or null or writing a field that has no string (lines
\* 138-155, the first such item in order), or writing an error that has no
\* string (line 166).  Items that are no array and have a function map of
\* their own are left open.
renderMoviesList(s) ==
  IF Nullish(s)
  THEN Threw(Err("TypeError", <<"Cannot read properties of undefined">>))
  ELSE IF Truthy(Get(s, "isFetchingItems"))
  THEN Returned([kind |-> "loading", buttons |-> 0])
  ELSE IF HasItemsThrows(s)
  THEN Threw(Err("TypeError", <<"Cannot convert object to primitive value">>))
  ELSE IF HasItems(s)
  THEN CASE TypeOf(s.items) = "array" ->
              IF \E i \in 1..Len(s.items.a) : RowThrows(s.items.a[i])
              THEN Threw(RowError(
                     s.items.a[CHOOSE i \in 1..Len(s.items.a) :
                       /\ RowThrows(s.items.a[i])
                       /\ \A j \in 1..(i - 1) : ~RowThrows(s.items.a[j])]))
              ELSE Returned([kind |-> "results",
                             buttons |-> ListButtons(s.items.a)])
         [] TypeOf(s.items) # "array"
              /\ TypeOf(Get(s.items, "map")) # "function" ->
              Threw(Err("TypeError", <<"state.items.map is not a function">>))
  ELSE IF ~Truthy(Get(s, "error"))
  THEN Returned([kind |-> "no results", buttons |-> 0])
  ELSE IF ToStringThrows(Get(s, "error"))
  THEN Threw(Err("TypeError", <<"Cannot convert object to primitive value">>))
  ELSE Returned([kind |-> "error",
                 buttons |-> TextButtons(Chars(ToString(Get(s, "error"))))])

----------------------------------------------------------------------------
(* Inputs: the movies a response carries, the ways a fetch settles, the    *)
(* actions a caller of the store dispatches.                               *)

Catalogue ==
  <<[title |-> Str(<<"Alien">>), poster_path |-> Str(<<"/alien.jpg">>),
     vote_average |-> Num(8), overview |-> Str(<<"In space">>)],
    [title |-> Str(<<"Brazil">>), poster_path |-> Null,
     vote_average |-> Num(7), overview |-> Str(<<"Paperwork">>)],
    [title |-> Str(<<"Casablanca">>), poster_path |-> Str(<<"/rick.jpg">>),
     vote_average |-> Num(9), overview |-> Str(<< >>)]>>

Movie(k) == Catalogue[((k - 1) % Len(Catalogue)) + 1]

\* The results arrays: the first n movies, in catalogue order and reversed.
ResultLists ==
  {[i \in 1..n |-> Movie(i)] : n \in 0..MaxResults}
  \cup {[i \in 1..n |-> Movie(n + 1 - i)] : n \in 0..MaxResults}

\* Results a movie object cannot be built from: null, and a movie whose
\* poster_path is an object with a toString of its own that is no function.
Unbuildable ==
  {Null,
   [title |-> Str(<<"Dune">>), poster_path |-> [toString |-> Num(5)],
    vote_average |-> Num(6), overview |-> Str(<<"Sand">>)]}

\* The bodies response.json() yields: without a results array, with one of
\* movies, or with one whose last element is unbuildable.
Bodies ==
  {EmptyObject} \cup {[results |-> Arr(l)] : l \in ResultLists}
  \cup {[results |-> Arr(<<Movie(1), u>>)] : u \in Unbuildable}

\* The ways a fetch settles: it rejects (with an error that has a name and
\* a message, with one that has no message, with one that has no name,
\* with no value, or with an object that has no string), or it resolves with a response whose ok flag is false
\* (its status text empty, plain, or markup) or true.
Responses ==
  {[k |-> "failed", error |-> e] :
     e \in {Err("TypeError", <<"Failed to fetch">>), Err("Error", << >>),
            Err("", <<"x">>), Undefined, [toString |-> Null]}}
  \cup {[k |-> "response", ok |-> FALSE, statusText |-> Str(text)] :
          text \in {<< >>, <<"Not Found">>,
                    <<"<button class=\"results__read-more\">x</button>">>}}
  \cup {[k |-> "response", ok |-> TRUE]}

\* The ways response.json() settles: the body is not JSON, or it is.
JsonOutcomes ==
  {[ok |-> FALSE]} \cup {[ok |-> TRUE, value |-> b] : b \in Bodies}

BuiltItems(l) == Arr([i \in 1..Len(l) |-> buildMovieObject(l[i]).value])

\* The action types a caller uses besides the four constants: the literal
\* the documentation gives for the fourth, a type nobody registered, and
\* the names of the inherited properties.
UnregisteredTypes ==
  {"SHOW_MOVIE_DESCRIPTION", "UNKNOWN"} \cup DOMAIN ObjectPrototype

ShowActions(type) ==
  {[type |-> type]} \cup {[type |-> type, index |-> Num(k)] : k \in 0..MaxResults}

DispatchInputs ==
  {[type |-> FETCH_MOVIES_REQUEST]}
  \cup {[type |-> FETCH_MOVIES_SUCCESS, data |-> BuiltItems(l)] :
          l \in ResultLists}
  \cup {[type |-> FETCH_MOVIES_SUCCESS, data |-> data] :
          data \in {Str(<<"abc">>), Fn("fetchMoviesRequest")}}
  \cup {[type |-> FETCH_MOVIES_FAILURE, error |-> Str(<<"Network down">>)]}
  \cup ShowActions(SHOW_MOVIE_DESCRIPTION)
  \cup ShowActions("SHOW_MOVIE_DESCRIPTION")
  \cup {[type |-> type] : type \in UnregisteredTypes}

\* The actions a subscriber dispatches from inside a notification.
NestedInputs ==
  {[type |-> FETCH_MOVIES_REQUEST],
   [type |-> "UNKNOWN"],
   [type |-> "__proto__"]}

EffectInputs ==
  {[type |-> FETCH_MOVIES_REQUEST, query |-> Str(q)] :
     q \in {<< >>, <<"alien">>}}
  \cup {[type |-> FETCH_MOVIES_REQUEST, query |-> [toString |-> Null]]}
  \cup {[type |-> FETCH_MOVIES_REQUEST]}
  \cup {[type |-> type] : type \in UnregisteredTypes \cup {FETCH_MOVIES_SUCCESS}}

\* The subscribers: the view's, registered at startup, and an observer that
\* other code registers, any number of times.
Observers == {"observer"}

----------------------------------------------------------------------------
(* The running code.  root says which handler runs: none, "caller" (code   *)
(* that calls the store), "search" and "readMore" (the click listeners),   *)
(* "then" and "catch" (the promise callbacks of request r), "rejected"     *)
(* (the promise of request r is rejected and its catch callback is next),  *)
(* "uncaught" (the handler ended by an error nobody caught).               *)

None == [k |-> "none"]

\* A dispatch call that is notifying: the forEach of line 21 visits the
\* indices below the length the array had when forEach was called.
\*   sub    : "idle" between two subscribers, "running" inside subscriber i;
\*   called, passed : the subscribers invoked so far and what each was given;
\*   subs   : the subscriber list when dispatch was called;
\*   parent : the index of the subscriber that made this call (0: none);
\*   committed : the value line 19 assigned last, in this call or in a call
\*            a subscriber of this loop made and that has returned.
NewFrame(action, newState, parent) ==
  [action |-> action, newState |-> newState, subs |-> subscribers,
   n |-> Len(subscribers), i |-> 1, sub |-> "idle",
   called |-> << >>, passed |-> << >>, parent |-> parent,
   committed |-> newState]

Top == stack[Len(stack)]
SetTop(f) == [stack EXCEPT ![Len(stack)] = f]
Pop ==
  IF Len(stack) > 1
  THEN [SubSeq(stack, 1, Len(stack) - 1)
          EXCEPT ![Len(stack) - 1].committed = Top.committed]
  ELSE << >>

\* Faulty variant of Nest: a call made while stk is running waits until
\* stk is over.
NestQueued(stk, frame) == <<frame>> \o stk

\* A call made while stk is running runs to its end before stk goes on.
Nest(stk, frame) == Append(stk, frame)

\* Line 21: the first argument of every subscriber call is the variable
\* state, read when that subscriber is called.
SubscriberArgument(frame, s) == s

\* Faulty variant of Uncaught: the error is swallowed and the handler goes
\* on.
UncaughtSwallowed(rt, error) == rt

\* An error nobody catches ends the running handler; thrown inside the
\* success callback of a request it rejects the promise the catch is on;
\* thrown inside the catch callback it rejects the promise line 77
\* returns, which nothing is attached to.
Uncaught(rt, error) ==
  IF rt.k = "then"
  THEN [k |-> "rejected", r |-> rt.r, error |-> error]
  ELSE IF rt.k \in {"rejected", "catch"}
  THEN [k |-> "uncaught", r |-> rt.r, error |-> error]
  ELSE [k |-> "uncaught", error |-> error]

\* dispatch(action) called while stk is running, in handler rt, from
\* subscriber number parent of the innermost call.
DispatchCall(stk, action, rt, parent) ==
  LET d == dispatch(state, action)
  IN  /\ state' = d.state
      /\ holder' = IF rt.k \in {"then", "catch"} /\ d.outcome = "reduced"
                   THEN rt.r
                   ELSE holder
      /\ last' = [op |-> "dispatch", action |-> action, handler |-> d.handler,
                  outcome |-> d.outcome, pre |-> state, depth |-> Len(stk) + 1]
      /\ CASE d.outcome = "reduced" ->
                /\ stack' = Nest(stk, NewFrame(action, d.state, parent))
                /\ root' = rt
           [] d.outcome = "miss" ->
                /\ stack' = stk
                /\ root' = rt
           [] OTHER ->
                /\ stack' = << >>
                /\ root' = Uncaught(rt, d.error)

Quiet == root = None /\ stack = << >>

Init ==
  /\ state = EmptyObject
  /\ subscribers = <<"renderMoviesList">>
  /\ stack = << >>
  /\ root = None
  /\ pending = {}
  /\ reading = {}
  /\ issued = 0
  /\ view = [kind |-> "blank", buttons |-> 0]
  /\ nested = 0
  /\ outcomes = << >>
  /\ holder = 0
  /\ last = [op |-> "init"]

----------------------------------------------------------------------------
(* Calls of the store from outside.                                        *)

\* store.subscribe(s)
Subscribe(s) ==
  /\ Quiet
  /\ Len(subscribers) < MaxSubscribers
  /\ subscribers' = Append(subscribers, s)
  /\ last' = [op |-> "subscribe"]
  /\ UNCHANGED <<holder, state, stack, root, pending, reading, issued, view, nested,
                 outcomes>>

\* store.dispatch(action)
ExternalDispatch(action) ==
  /\ Quiet
  /\ DispatchCall(<< >>, action, [k |-> "caller"], 0)
  /\ UNCHANGED <<subscribers, pending, reading, issued, view, nested, outcomes>>

\* store.dispatchEffect(action)
ExternalDispatchEffect(action) ==
  LET e == dispatchEffect(state, action)
  IN  /\ Quiet
      /\ e.fetch => issued < MaxRequests
      /\ issued' = IF e.fetch THEN issued + 1 ELSE issued
      /\ pending' = IF e.fetch THEN pending \cup {issued + 1} ELSE pending
      /\ last' = [op |-> "dispatchEffect", action |-> action,
                  handler |-> e.handler, outcome |-> e.outcome, pre |-> state,
                  inFlight |-> pending]
      /\ root' = IF e.outcome = "threw"
                 THEN [k |-> "uncaught", error |-> e.error]
                 ELSE [k |-> "caller"]
      /\ UNCHANGED <<holder, state, subscribers, stack, reading, view, nested,
                     outcomes>>

----------------------------------------------------------------------------
(* The notification loop of dispatch (line 21).                            *)

Invoked(f, arg) ==
  [f EXCEPT !.called = Append(@, subscribers[f.i]),
            !.passed = Append(@, arg)]

\* The loop calls renderMoviesList, which renders and returns, or throws:
\* no call on the stack catches, so every dispatch call in progress is
\* abandoned.
InvokeRender ==
  /\ stack # << >>
  /\ Top.sub = "idle" /\ Top.i <= Top.n
  /\ subscribers[Top.i] = "renderMoviesList"
  /\ LET arg == SubscriberArgument(Top, state)
         render == renderMoviesList(arg)
     IN  IF render.threw
         THEN /\ stack' = << >>
              /\ root' = Uncaught(root, render.error)
              /\ last' = [op |-> "subscriberThrows",
                          frames |-> SetTop([Invoked(Top, arg)
                                               EXCEPT !.sub = "running"]),
                          pre |-> state]
              /\ view' = view
         ELSE /\ view' = render.value
              /\ stack' = SetTop([Invoked(Top, arg) EXCEPT !.i = @ + 1])
              /\ last' = [op |-> "invoke", subscriber |-> "renderMoviesList",
                          arg |-> arg]
              /\ root' = root
  /\ UNCHANGED <<holder, state, subscribers, pending, reading, issued, nested,
                 outcomes>>

\* The loop calls an observer.
InvokeObserver ==
  /\ stack # << >>
  /\ Top.sub = "idle" /\ Top.i <= Top.n
  /\ subscribers[Top.i] \in Observers
  /\ LET arg == SubscriberArgument(Top, state)
     IN  /\ stack' = SetTop([Invoked(Top, arg) EXCEPT !.sub = "running"])
         /\ last' = [op |-> "invoke", subscriber |-> subscribers[Top.i],
                     arg |-> arg]
  /\ UNCHANGED <<holder, state, subscribers, root, pending, reading, issued, view, nested,
                 outcomes>>

\* The running observer calls dispatch.
ObserverDispatches(action) ==
  /\ stack # << >>
  /\ Top.sub = "running"
  /\ nested < MaxNested
  /\ nested' = nested + 1
  /\ DispatchCall(stack, action, root, Top.i)
  /\ UNCHANGED <<subscribers, pending, reading, issued, view, outcomes>>

\* The running observer returns.
ObserverReturns ==
  /\ stack # << >>
  /\ Top.sub = "running"
  /\ stack' = SetTop([Top EXCEPT !.sub = "idle", !.i = @ + 1])
  /\ last' = [op |-> "observerReturns"]
  /\ UNCHANGED <<holder, state, subscribers, root, pending, reading, issued, view, nested,
                 outcomes>>

\* The running observer throws: no call on the stack catches, so every
\* dispatch call in progress is abandoned.
ObserverThrows ==
  /\ stack # << >>
  /\ Top.sub = "running"
  /\ stack' = << >>
  /\ root' = Uncaught(root, Err("Error", <<"observer failed">>))
  /\ last' = [op |-> "subscriberThrows", frames |-> stack, pre |-> state]
  /\ UNCHANGED <<holder, state, subscribers, pending, reading, issued, view, nested,
                 outcomes>>

\* forEach is over: the innermost dispatch call returns.
Return ==
  /\ stack # << >>
  /\ Top.sub = "idle" /\ Top.i > Top.n
  /\ stack' = Pop
  /\ last' = [op |-> "return", frame |-> Top]
  /\ UNCHANGED <<holder, state, subscribers, root, pending, reading, issued, view, nested,
                 outcomes>>

----------------------------------------------------------------------------
(* The view's listeners (app.js:177-185, 206-219) and the rest of the      *)
(* running handler once its dispatch call has returned.                    *)

\* A click on Search with query in the input: dispatch, then dispatchEffect.
ClickSearch(query) ==
  /\ Quiet
  /\ Truthy(query) => issued < MaxRequests
  /\ DispatchCall(<< >>, [type |-> FETCH_MOVIES_REQUEST],
                  [k |-> "search", query |-> query], 0)
  /\ UNCHANGED <<subscribers, pending, reading, issued, view, nested, outcomes>>

\* A click on the "Read more" button of row index.
ClickReadMore(index) ==
  /\ Quiet
  /\ index < view.buttons
  /\ DispatchCall(<< >>, [type |-> SHOW_MOVIE_DESCRIPTION, index |-> Num(index)],
                  [k |-> "readMore"], 0)
  /\ UNCHANGED <<subscribers, pending, reading, issued, view, nested, outcomes>>

\* The dispatch call of the running handler has returned; the search
\* listener goes on to dispatchEffect, the other handlers are over.  A
\* handler that was a promise callback of request r ends the chain of r.
HandlerEnd ==
  /\ stack = << >>
  /\ root.k \in {"caller", "search", "readMore", "then", "catch", "uncaught"}
  /\ LET action == [type |-> FETCH_MOVIES_REQUEST, query |-> root.query]
         fetch == root.k = "search" /\ dispatchEffect(state, action).fetch
     IN  /\ issued' = IF fetch THEN issued + 1 ELSE issued
         /\ pending' = IF fetch THEN pending \cup {issued + 1} ELSE pending
         /\ last' = IF "r" \in DOMAIN root
                    THEN [op |-> "settled", outcomes |-> outcomes]
                    ELSE [op |-> "handlerEnd"]
  /\ root' = None
  /\ nested' = 0
  /\ outcomes' = << >>
  /\ UNCHANGED <<holder, state, subscribers, stack, reading, view>>

----------------------------------------------------------------------------
(* The network and the promise callbacks (app.js:63-81).                   *)

\* The fetch of line 63 is given no signal to abort it and its callbacks
\* test nothing: a request in flight settles, whatever was issued since.
CanSettle(r) == r \in pending

\* The fetch of request r settles and the callbacks of lines 64-70 run.  A
\* rejection, or a response that is not ok, rejects the chain, whose catch
\* callback is next.  For an ok response response.json() is called and the
\* chain waits for the body: the code returns to the event loop.
Respond(r, settled) ==
  /\ Quiet
  /\ CanSettle(r)
  /\ pending' = pending \ {r}
  /\ IF settled.k = "response" /\ settled.ok
     THEN /\ reading' = reading \cup {r}
          /\ last' = [op |-> "responded", r |-> r]
          /\ UNCHANGED <<root, outcomes>>
     ELSE /\ reading' = reading
          /\ outcomes' = << >>
          /\ root' = [k |-> "rejected", r |-> r,
                      error |-> fetchMoviesRequestEffectThen(settled).error]
          /\ last' = [op |-> "rejected", r |-> r]
  /\ UNCHANGED <<holder, state, stack, subscribers, issued, view, nested>>

\* response.json() of request r settles and the callback of lines 71-76
\* runs, or the chain is rejected.
ReadBody(r, json) ==
  LET settled == [k |-> "response", ok |-> TRUE, json |-> json]
      t == fetchMoviesRequestEffectThen(settled)
  IN  /\ Quiet
      /\ r \in reading
      /\ reading' = reading \ {r}
      /\ IF t.k = "dispatch"
         THEN /\ outcomes' = <<t.action.type>>
              /\ DispatchCall(<< >>, t.action,
                              [k |-> "then", r |-> r,
                               results |-> json.value.results.a],
                              0)
         ELSE /\ outcomes' = << >>
              /\ root' = [k |-> "rejected", r |-> r, error |-> t.error]
              /\ last' = [op |-> "rejected", r |-> r, json |-> json]
              /\ UNCHANGED <<holder, state, stack>>
      /\ UNCHANGED <<subscribers, pending, issued, view, nested>>

\* The catch callback of a rejected request runs: it dispatches the
\* failure action, or its template literal throws before dispatch is
\* called.
Catch ==
  /\ root.k = "rejected"
  /\ stack = << >>
  /\ LET call == fetchMoviesRequestEffectCatch(root.error)
     IN  IF call.threw
         THEN /\ root' = Uncaught(root, call.error)
              /\ last' = [op |-> "catchThrows", r |-> root.r]
              /\ UNCHANGED <<holder, state, stack, outcomes>>
         ELSE /\ outcomes' = Append(outcomes, call.value.type)
              /\ DispatchCall(<< >>, call.value,
                              [k |-> "catch", r |-> root.r,
                               error |-> root.error],
                              0)
  /\ UNCHANGED <<subscribers, pending, reading, issued, view, nested>>

----------------------------------------------------------------------------
(* The specifications.                                                     *)

\* The notification loop with subscribers that return or throw.
Notification ==
  \/ InvokeRender
  \/ InvokeObserver
  \/ ObserverReturns
  \/ ObserverThrows
  \/ Return
  \/ HandlerEnd

\* The store and the code that calls it.
Next ==
  \/ \E s \in Observers : Subscribe(s)
  \/ \E action \in DispatchInputs : ExternalDispatch(action)
  \/ \E action \in EffectInputs : ExternalDispatchEffect(action)
  \/ \E action \in NestedInputs : ObserverDispatches(action)
  \/ Notification

Spec == Init /\ [][Next]_vars

\* The application: the page, its user and the network.
AppNext ==
  \/ \E s \in Observers : Subscribe(s)
  \/ \E q \in {<< >>, <<"alien">>} : ClickSearch(Str(q))
  \/ \E index \in 0..MaxResults : ClickReadMore(index)
  \/ \E r \in 1..MaxRequests, settled \in Responses : Respond(r, settled)
  \/ \E r \in 1..MaxRequests, json \in JsonOutcomes : ReadBody(r, json)
  \/ Catch
  \/ Notification

AppSpec == Init /\ [][AppNext]_vars

\* The fetch of request r settles, one way or another.
Settle(r) == \E settled \in Responses : Respond(r, settled)

\* The body of the response of request r arrives, JSON or not.
Arrive(r) == \E json \in JsonOutcomes : ReadBody(r, json)

\* The application with a host that runs code to its end and a network that
\* settles every request: the running handler and the promise callbacks are
\* not suspended for ever, and a request that is in flight settles, however
\* often the user's clicks come in between.
LiveSpec ==
  /\ Init
  /\ [][AppNext]_vars
  /\ WF_vars(Notification)
  /\ WF_vars(Catch)
  /\ \A r \in 1..MaxRequests : SF_vars(Settle(r)) /\ SF_vars(Arrive(r))

----------------------------------------------------------------------------
(* The claims.  Each is stated over the observation last of the step just  *)
(* taken, the calls in progress (stack) and the store's variables.         *)

\* The items of a state that holds an array of items; none otherwise.
Items(s) ==
  IF TypeOf(Get(s, "items")) = "array" THEN Get(s, "items").a ELSE << >>

Registered(type) == type \in DOMAIN reducers
RegisteredEffect(type) == type \in DOMAIN effects

\* C1: a dispatch of an action whose type has no registered reducer leaves
\* the state unchanged, invokes no subscriber (no notification loop starts)
\* and raises no error; a dispatchEffect of an action whose type has no
\* registered effect invokes no handler, changes nothing and raises no error.
C1_RoutingMissIsNoOp ==
  /\ (last.op = "dispatch" /\ ~Registered(last.action.type)) =>
       /\ last.outcome = "miss"
       /\ state = last.pre
       /\ Len(stack) = last.depth - 1
       /\ root.k \notin {"uncaught", "rejected"}
  /\ (last.op = "dispatchEffect" /\ ~RegisteredEffect(last.action.type)) =>
       /\ last.outcome = "miss"
       /\ state = last.pre
       /\ stack = << >>
       /\ root.k # "uncaught"

\* The dispatch calls that ended in the step just taken: the one that
\* returned, or those an error abandoned.
Ended ==
  CASE last.op = "return" -> {last.frame}
    [] last.op = "subscriberThrows" ->
         {last.frames[k] : k \in DOMAIN last.frames}
    [] OTHER -> {}

\* C2: every dispatch of an action that has a registered reducer, once it
\* is over (it returned, or an error ended it), has invoked each
\* registration made before it exactly once, in registration order; a
\* subscriber registered k times was invoked k times.
C2_EveryDispatchInvokesAll ==
  \A f \in Ended : Registered(f.action.type) => f.called = f.subs

\* C3: in the notification loop of dispatch(a), every subscriber is passed
\* the state a's reducer returned in that same call, also after an earlier
\* subscriber of the loop has itself called dispatch.
C3_SubscribersGetReducerResult ==
  \A k \in DOMAIN stack :
    \A j \in DOMAIN stack[k].passed :
      stack[k].passed[j] = stack[k].newState

\* C4: dispatch is re-entrant and depth-first: a dispatch call made by a
\* subscriber is in progress only while that subscriber is still running
\* in the call below it, so the outer loop invokes its next subscriber only
\* after the nested call has replaced the state and notified every
\* subscriber; no call waits behind another.
C4_NestedDispatchCompletesFirst ==
  \A k \in DOMAIN stack :
    IF stack[k].parent = 0
    THEN k = 1
    ELSE /\ k > 1
         /\ stack[k - 1].sub = "running"
         /\ stack[k - 1].i = stack[k].parent
         /\ Len(stack[k - 1].called) = stack[k].parent

\* A nested call has notified every subscriber while the subscriber that
\* made it is still running and the outer loop has a subscriber left.
C4_Witness ==
  /\ Len(stack) = 2
  /\ Top.i > Top.n
  /\ Top.called = subscribers
  /\ state = Top.newState
  /\ stack[1].sub = "running"
  /\ stack[1].i < stack[1].n

\* C5: when the reducer call throws, the error reaches the caller of
\* dispatch (no call on the stack survives it), the state is what it was
\* before this dispatch, and no subscriber is notified for it.
C5_ReducerThrowKeepsState ==
  (last.op = "dispatch" /\ last.outcome = "threw") =>
    /\ state = last.pre
    /\ stack = << >>
    /\ root.k \in {"uncaught", "rejected"}

\* A registered reducer threw: showMovieDescription, against a state whose
\* items pass the test of line 96 and have no map.
C5_Witness ==
  /\ last.op = "dispatch"
  /\ last.outcome = "threw"
  /\ last.handler = "showMovieDescription"
  /\ Get(last.pre, "items") = Str(<<"abc">>)
  /\ Get(last.pre, "isFetchingItems") = Bool(TRUE)

\* C6: an action whose type is one of the documented strings is routed to
\* the reducer registered for it.
C6_DocumentedTypesAreRouted ==
  (last.op = "dispatch"
     /\ last.action.type \in {"FETCH_MOVIES_REQUEST", "FETCH_MOVIES_SUCCESS",
                              "FETCH_MOVIES_FAILURE", "SHOW_MOVIE_DESCRIPTION"})
  => /\ last.outcome = "reduced"
     /\ last.handler =
          CASE last.action.type = "FETCH_MOVIES_REQUEST" -> "fetchMoviesRequest"
            [] last.action.type = "FETCH_MOVIES_SUCCESS" -> "fetchMoviesSuccess"
            [] last.action.type = "FETCH_MOVIES_FAILURE" -> "fetchMoviesFailure"
            [] OTHER -> "showMovieDescription"

\* C7: the promise callbacks of a request dispatch exactly one outcome
\* action: never two, and never none once they are over.
C7_ExactlyOneOutcome ==
  /\ Len(outcomes) <= 1
  /\ last.op = "settled" => Len(last.outcomes) = 1

\* C8: there is no cancellation.  Whatever the state, every request in
\* flight can settle as soon as no handler runs, in any order; the outcome
\* action its callbacks dispatch is reduced into the state; when the
\* promise chain of a request is over, its callbacks have dispatched an
\* outcome action; and a dispatch made by a click while requests are in
\* flight is reduced too.
C8_NoCancellation ==
  /\ Quiet =>
       \A r \in pending :
         ENABLED Respond(r, [k |-> "response", ok |-> FALSE,
                             statusText |-> Str(<<"Not Found">>)])
  /\ Quiet => \A r \in reading : ENABLED ReadBody(r, [ok |-> FALSE])
  /\ (last.op = "dispatch" /\ root.k = "then") =>
       /\ last.outcome = "reduced"
       /\ Get(state, "items") = last.action.data
       /\ Get(state, "isFetchingItems") = Bool(FALSE)
  /\ (last.op = "dispatch" /\ root.k = "catch") =>
       /\ last.outcome = "reduced"
       /\ Get(state, "error") = last.action.error
       /\ Get(state, "isFetchingItems") = Bool(FALSE)
  /\ last.op = "settled" => last.outcomes # << >>
  /\ (last.op = "dispatch" /\ root.k \in {"search", "readMore"}
        /\ pending # {}) =>
       /\ last.outcome = "reduced"
       /\ stack # << >>
       /\ state = Top.newState

\* C9: SHOW_MOVIE_DESCRIPTION with index i against n items (0 <= i < n)
\* yields items with showDescription true at position i and false at every
\* other, every other field of every item, the number and order of the
\* items and every other field of the state unchanged.
C9_ShowSetsExactlyOne ==
  (/\ last.op = "dispatch"
   /\ last.handler = "showMovieDescription"
   /\ Items(last.pre) # << >>
   /\ \E i \in 1..Len(Items(last.pre)) : Get(last.action, "index") = Num(i - 1))
  => LET old == Items(last.pre)
         new == Get(state, "items")
     IN  /\ TypeOf(new) = "array"
         /\ Len(new.a) = Len(old)
         /\ \A j \in 1..Len(old) :
              /\ DOMAIN new.a[j] = DOMAIN old[j]
              /\ \A f \in DOMAIN old[j] \ {"showDescription"} :
                   new.a[j][f] = old[j][f]
              /\ new.a[j].showDescription =
                   Bool(Num(j - 1) = last.action.index)
         /\ DOMAIN state = DOMAIN last.pre
         /\ \A k \in DOMAIN last.pre \ {"items"} : state[k] = last.pre[k]

\* The second of two items is selected while the first one was shown.
C9_Witness ==
  /\ last.op = "dispatch"
  /\ last.handler = "showMovieDescription"
  /\ Get(last.action, "index") = Num(1)
  /\ Items(last.pre) # << >>
  /\ Len(Items(last.pre)) = 2
  /\ Items(last.pre)[1].showDescription = Bool(TRUE)
  /\ Items(state)[2].showDescription = Bool(TRUE)
  /\ Truthy(Get(state, "error"))

\* The states of the request lifecycle: loading while isFetchingItems is
\* set; otherwise loaded when items is an array, errored when there is an
\* error and no items, idle when there is neither.
Phase(s) ==
  CASE Truthy(Get(s, "isFetchingItems")) -> "loading"
    [] TypeOf(Get(s, "items")) = "array" -> "loaded"
    [] Truthy(Get(s, "error")) -> "errored"
    [] OTHER -> "idle"

\* C10: SHOW_MOVIE_DESCRIPTION dispatched while the state is idle, loading
\* or errored leaves items, isFetchingItems and error unchanged.  (Items
\* count as unchanged also when an empty array becomes undefined, which
\* neither the view nor a reducer tells apart.)
C10_ShowOnlyFromLoaded ==
  (/\ last.op = "dispatch"
   /\ last.handler = "showMovieDescription"
   /\ Phase(last.pre) \in {"idle", "loading", "errored"})
  => /\ \/ Get(state, "items") = Get(last.pre, "items")
        \/ Items(state) = << >> /\ Items(last.pre) = << >>
     /\ Get(state, "isFetchingItems") = Get(last.pre, "isFetchingItems")
     /\ Get(state, "error") = Get(last.pre, "error")

\* The message of a value a promise rejected with: the string itself, the
\* message property of an error, none for anything else.
Message(v) ==
  CASE TypeOf(v) = "string" -> v.s
    [] TypeOf(v) = "error" -> v.message
    [] OTHER -> << >>

\* C11: when the request of the search effect fails with a message m (the
\* status text of a response that is not ok, or the message of the error
\* the fetch or the JSON parsing rejected with), its callbacks dispatch
\* exactly one FETCH_MOVIES_FAILURE, and the state it yields has error = m,
\* no items and isFetchingItems false.
C11_FailureCarriesMessage ==
  /\ (/\ last.op = "dispatch"
      /\ root.k = "catch"
      /\ Head(outcomes) = FETCH_MOVIES_FAILURE
      /\ Message(root.error) # << >>)
     => /\ outcomes = <<FETCH_MOVIES_FAILURE>>
        /\ last.outcome = "reduced"
        /\ Get(state, "error") = Str(Message(root.error))
        /\ Get(state, "items") = Undefined
        /\ Get(state, "isFetchingItems") = Bool(FALSE)
  /\ (last.op = "settled" /\ Head(last.outcomes) = FETCH_MOVIES_FAILURE)
     => last.outcomes = <<FETCH_MOVIES_FAILURE>>

\* A rejection value with no message: no value at all, the empty string,
\* an error whose message is empty.
NoMessage(v) == Nullish(v) \/ Message(v) = << >>

\* C12: when the search effect fails and the rejection value is absent or
\* carries no message, the FETCH_MOVIES_FAILURE action dispatched carries
\* the error string "Unknown error".
C12_FallbackWhenNoMessage ==
  (/\ last.op = "dispatch"
   /\ root.k = "catch"
   /\ Head(outcomes) = FETCH_MOVIES_FAILURE
   /\ NoMessage(root.error))
  => /\ last.action.type = FETCH_MOVIES_FAILURE
     /\ last.action.error = Str(<<"Unknown error">>)

\* C13: a dispatch of FETCH_MOVIES_REQUEST, from any state, yields a state
\* whose isFetchingItems is true and whose error is undefined, with every
\* other field (the items of a previous search among them) as it was and
\* no field added.
C13_RequestSetsLoadingOnly ==
  (last.op = "dispatch" /\ last.action.type = FETCH_MOVIES_REQUEST)
  => /\ last.outcome = "reduced"
     /\ Get(state, "isFetchingItems") = Bool(TRUE)
     /\ Get(state, "error") = Undefined
     /\ DOMAIN state =
          DOMAIN OwnProperties(last.pre) \cup {"isFetchingItems", "error"}
     /\ \A k \in DOMAIN OwnProperties(last.pre) \ {"isFetchingItems", "error"} :
          state[k] = OwnProperties(last.pre)[k]

\* FETCH_MOVIES_REQUEST is dispatched against a state that holds an error
\* and the items of a previous search, one of them shown.
C13_Witness ==
  /\ last.op = "dispatch"
  /\ last.action.type = FETCH_MOVIES_REQUEST
  /\ Truthy(Get(last.pre, "error"))
  /\ Items(last.pre) # << >>
  /\ \E i \in DOMAIN Items(last.pre) :
       Items(last.pre)[i].showDescription = Bool(TRUE)
  /\ Get(state, "items") = last.pre.items
  /\ Get(state, "error") = Undefined

\* The image address of each poster path of the catalogue, written out.
Address(poster_path) ==
  CASE poster_path = Str(<<"/alien.jpg">>) ->
         "https://image.tmdb.org/t/p/w92//alien.jpg"
    [] poster_path = Null -> "https://image.tmdb.org/t/p/w92/null"
    [] poster_path = Str(<<"/rick.jpg">>) ->
         "https://image.tmdb.org/t/p/w92//rick.jpg"

\* C14: when the request of the search effect resolves with a body whose
\* results array has n movies, the FETCH_MOVIES_SUCCESS its callback
\* dispatches yields a state whose items are n records, the k-th built from
\* the k-th result (title, rating, description, thumbnail address), each
\* with showDescription false, and whose isFetchingItems is false; and
\* the callback of a body with a results array rejects instead of
\* dispatching only when a result is null or has a poster path that is an
\* object.
C14_SuccessSetsItemsInOrder ==
  /\ (last.op = "dispatch" /\ root.k = "then")
     => LET items == Get(state, "items")
        IN  /\ last.action.type = FETCH_MOVIES_SUCCESS
            /\ last.outcome = "reduced"
            /\ TypeOf(items) = "array"
            /\ Len(items.a) = Len(root.results)
            /\ \A k \in 1..Len(root.results) :
                 /\ root.results[k] # Null
                 /\ items.a[k].title = root.results[k].title
                 /\ items.a[k].rating = root.results[k].vote_average
                 /\ items.a[k].description = root.results[k].overview
                 /\ Concat(items.a[k].thumbnail.s) =
                      Address(root.results[k].poster_path)
                 /\ items.a[k].showDescription = Bool(FALSE)
            /\ Get(state, "isFetchingItems") = Bool(FALSE)
  /\ (last.op = "rejected" /\ "json" \in DOMAIN last)
     => \/ ~last.json.ok
        \/ "results" \notin DOMAIN last.json.value
        \/ \E k \in 1..Len(last.json.value.results.a) :
             \/ last.json.value.results.a[k] = Null
             \/ TypeOf(last.json.value.results.a[k].poster_path) = "object"

\* A response with two results, Brazil before Alien, replaces the items of
\* an earlier search, one of which was shown.
C14_Witness ==
  /\ last.op = "dispatch"
  /\ root.k = "then"
  /\ Len(root.results) = 2
  /\ root.results[1].title = Str(<<"Brazil">>)
  /\ Items(state)[1].title = Str(<<"Brazil">>)
  /\ Items(state)[2].title = Str(<<"Alien">>)
  /\ Items(last.pre) # << >>
  /\ \E i \in DOMAIN Items(last.pre) :
       Items(last.pre)[i].showDescription = Bool(TRUE)

\* C15: the FETCH_MOVIES_REQUEST effect fires only if action.query is
\* truthy.  Called through dispatchEffect with an empty or a missing query
\* it issues no request and dispatches nothing (no dispatch call starts,
\* no error is raised), and the state is what it was; with a query that is
\* a non-empty string it issues one request and the state is what it was;
\* with a query object that has no string it throws, issues no request
\* and the state is what it was.
C15_EffectNeedsQuery ==
  (last.op = "dispatchEffect" /\ last.action.type = FETCH_MOVIES_REQUEST)
  => /\ state = last.pre
     /\ stack = << >>
     /\ CASE "query" \notin DOMAIN last.action
               \/ last.action.query = Str(<< >>) ->
               /\ last.outcome = "called"
               /\ root.k = "caller"
               /\ pending = last.inFlight
          [] "query" \in DOMAIN last.action
               /\ last.action.query = Str(<<"alien">>) ->
               /\ last.outcome = "called"
               /\ root.k = "caller"
               /\ \E r \in pending \ last.inFlight :
                    pending = last.inFlight \cup {r}
          [] "query" \in DOMAIN last.action
               /\ TypeOf(last.action.query) = "object" ->
               /\ last.outcome = "threw"
               /\ root.k = "uncaught"
               /\ pending = last.inFlight

\* dispatchEffect was called with an empty query while the state is
\* loading and a request is in flight: none was added.
C15_Witness ==
  /\ last.op = "dispatchEffect"
  /\ last.action = [type |-> FETCH_MOVIES_REQUEST, query |-> Str(<< >>)]
  /\ Get(state, "isFetchingItems") = Bool(TRUE)
  /\ pending = {1}
  /\ last.inFlight = {1}

\* C16: after any click on Search (the listener runs: root is "search"),
\* if every request issued settles, the state eventually has a falsy
\* isFetchingItems.
C16_SearchEventuallyNotLoading ==
  (root.k = "search") ~> ~Truthy(Get(state, "isFetchingItems"))

\* C17: once every request issued has completed, the items or the error in
\* the state are the outcome of the search issued last: the outcome action
\* reduced last is the one of the latest request, in whatever order the
\* requests completed.
C17_LatestSearchWins ==
  (Quiet /\ pending = {} /\ reading = {} /\ issued > 0) => holder = issued

\* C18: in every state the application reaches through search clicks,
\* request completions in any order and read-more clicks, the state never
\* holds both a non-empty error and a non-empty items array.
C18_ErrorExcludesItems ==
  ~(Truthy(Get(state, "error")) /\ Items(state) # << >>)

\* The items of s whose showDescription is true.
Shown(s) ==
  IF Items(s) # << >>
  THEN {i \in DOMAIN Items(s) : Items(s)[i].showDescription = Bool(TRUE)}
  ELSE {}

\* C19: in every state reached by dispatches of FETCH_MOVIES_REQUEST,
\* FETCH_MOVIES_SUCCESS (items built by buildMovieObject),
\* FETCH_MOVIES_FAILURE and SHOW_MOVIE_DESCRIPTION, at most one item has
\* showDescription true; after SHOW_MOVIE_DESCRIPTION with an index that is
\* no position of the items (too large, or missing), none has.
C19_AtMostOneShown ==
  /\ Cardinality(Shown(state)) <= 1
  /\ (/\ last.op = "dispatch"
      /\ last.handler = "showMovieDescription"
      /\ Items(last.pre) # << >>
      /\ \A i \in 1..Len(Items(last.pre)) :
           Get(last.action, "index") # Num(i - 1))
     => Shown(state) = {}

\* SHOW_MOVIE_DESCRIPTION with index 2 against two items, the second of
\* which was shown: none is shown any more.
C19_Witness ==
  /\ last.op = "dispatch"
  /\ last.handler = "showMovieDescription"
  /\ Get(last.action, "index") = Num(2)
  /\ Shown(last.pre) = {2}
  /\ Len(Items(state)) = 2
  /\ Shown(state) = {}

\* C20 as stated: when a subscriber throws during notification, the error
\* reaches the caller of dispatch (every dispatch call in progress is
\* abandoned and the running handler ends by the error, or its promise is
\* rejected), the state stays at the value committed by the dispatch whose
\* subscriber threw, and in every abandoned call the subscribers after the
\* throwing one were not invoked, nor will be.
C20_SubscriberThrowKeepsOwnCommit ==
  last.op = "subscriberThrows"
  => /\ stack = << >>
     /\ root.k \in {"uncaught", "rejected"}
     /\ state = last.frames[Len(last.frames)].newState
     /\ \A k \in DOMAIN last.frames :
          LET f == last.frames[k]
          IN  /\ f.sub = "running"
              /\ f.called = SubSeq(f.subs, 1, f.i)

\* C20, amended: when a subscriber throws during notification, the error
\* reaches the caller of dispatch, the state stays at the value committed
\* last (by the dispatch whose subscriber threw or, when a subscriber of
\* its loop has dispatched in turn, by the latest such nested dispatch,
\* which only a subscriber other than renderMoviesList makes), and in every abandoned call the subscribers after the
\* throwing one were not invoked, nor will be.
C20_SubscriberThrowKeepsLastCommit ==
  last.op = "subscriberThrows"
  => /\ stack = << >>
     /\ root.k \in {"uncaught", "rejected"}
     /\ state = last.frames[Len(last.frames)].committed
     /\ \A k \in DOMAIN last.frames :
          LET f == last.frames[k]
          IN  /\ f.sub = "running"
              /\ f.called = SubSeq(f.subs, 1, f.i)
              /\ f.committed = f.newState
                   \/ \E j \in 1..f.i : f.subs[j] # "renderMoviesList"

\* The third of three subscribers threw after a subscriber of the loop had
\* dispatched FETCH_MOVIES_REQUEST from inside it: the state is the one the
\* nested dispatch committed, not the one of the abandoned dispatch.
C20_Witness ==
  /\ last.op = "subscriberThrows"
  /\ Len(last.frames) = 1
  /\ last.frames[1].called = <<"renderMoviesList", "observer", "observer">>
  /\ last.frames[1].i = 3
  /\ nested = 1
  /\ state # last.frames[1].newState
  /\ Get(state, "isFetchingItems") = Bool(TRUE)
  /\ Get(last.frames[1].newState, "isFetchingItems") = Bool(FALSE)

====
